---- MODULE Spec2Model ----
(***************************************************************************)
(* autolog.py: the logged decorator (_logged, logged, logged.__get__) and  *)
(* the autolog metaclass, as a state machine over the log sink, the stack  *)
(* of wrapper calls in progress, the class namespaces and the attribute    *)
(* dictionaries of the wrapped objects.                                    *)
(*                                                                         *)
(* Python objects are records; k is the kind of the object.  Text (names,  *)
(* representations, log lines) is modelled by strings built with \o the    *)
(* way the source builds it with the % operator and join.                  *)
(***************************************************************************)
EXTENDS Integers, Sequences, FiniteSets, TLC

VARIABLES
    log,      \* the lines written to _logged.log, oldest first
    stack,    \* the wrapper calls in progress, innermost last
    hist,     \* history: one record per wrapper call, in call order
    held,     \* the logged.__get__ object an attribute access has produced (obj),
              \* with the access that produced it
    heap,     \* instance id -> the instance's attributes (name, thought)
    classes,  \* class name -> namespace of the class
    pending,  \* the class namespace a class statement is about to hand to autolog
    budget,   \* the number of wrapper calls the behaviour may still start
    made,     \* history: key of a class autolog created -> the namespace it was handed
    plain,    \* the wrappers made by decorating at module level
    attrs,    \* object id -> attribute dictionary of the wrapped object
    got,      \* outcome of the last attribute operation on a wrapper
    sinks,    \* the file objects _logged.log has held, oldest first: for each,
              \* the number of lines written before it was assigned
    dest,     \* for each line of log, the file object it was written to
    gens      \* the generator objects, in the order of their creation

vars == <<log, stack, hist, held, heap, classes, pending, budget, made, plain,
          attrs, got, sinks, dest, gens>>

\* Bound on the number of wrapper calls in one behaviour.
MaxCalls == 2

\* Bound on the number of file objects _logged.log holds in one behaviour.
MaxSinks == 2

-----------------------------------------------------------------------------
(* Python objects *)

None == [k |-> "none"]
PyInt(n) == [k |-> "int", id |-> n]
PyStr(s) == [k |-> "str", id |-> s]
PyFalse == [k |-> "bool", id |-> "False"]
Instance(o, c) == [k |-> "instance", id |-> o, class |-> c]
Class(c) == [k |-> "class", id |-> c]
Function(f) == [k |-> "function", id |-> f]
StaticMethod(f) == [k |-> "staticmethod", id |-> f]
ClassMethod(f) == [k |-> "classmethod", id |-> f]
Method(f, s, c) == [k |-> "method", im_func |-> f, im_self |-> s, im_class |-> c]
Property(g, s, d) == [k |-> "property", fget |-> g, fset |-> s, fdel |-> d]
PyExc(t) == [k |-> "exception", id |-> t]

\* Marks the absence of a value in the history (no Python object).
NoValue == [k |-> "novalue"]

-----------------------------------------------------------------------------
(* The objects of the program: the callables of the test suite *)

\* The instances: o1, created by object.__new__ for the autologged class (its
\* __repr__ shows the name once __init__ has set it), and the callable object
\* Adder(21).
o1 == Instance("o1", "Torinese")
add21 == Instance("add21", "Adder")

\* cls.__name__ of the class stored under the key c.
ClassName(c) == IF c \in DOMAIN classes THEN classes[c].name ELSE c

\* repr of None, of a number and of a string.
ReprBasic(v) ==
    CASE v.k = "none" -> "None"
      [] v.k = "str" -> "'" \o v.id \o "'"
      [] OTHER -> v.id

\* Classes whose instances are callable (they define __call__).
CallableClasses == {"Adder"}

\* repr of an object whose representation does not contain another object's,
\* when the instances have the attributes h.
ReprAtomIn(h, v) ==
    CASE v.k \in {"none", "int", "str", "bool"} -> ReprBasic(v)
      [] v.k = "instance" ->
            \* Torinese.__repr__ and Adder.__repr__ show the attribute once it
            \* is set; before that (and for the other classes) object.__repr__.
            IF h[v.id].name # NoValue
            THEN ClassName(v.class) \o "(" \o ReprBasic(h[v.id].name) \o ")"
            ELSE "<__main__." \o ClassName(v.class) \o " object at 0x" \o v.id \o ">"
      [] v.k = "class" -> "<class '__main__." \o ClassName(v.id) \o "'>"
      [] v.k = "function" -> "<function " \o v.id \o " at 0x" \o v.id \o ">"
      [] v.k = "generator" -> "<generator object " \o v.id \o " at 0x" \o v.id \o ">"
      [] v.k \in {"staticmethod", "classmethod", "property"} ->
            "<" \o v.k \o " object at 0x" \o v.k \o ">"
      [] OTHER -> "<__main__." \o v.k \o " object at 0x" \o v.k \o ">"

\* repr(v) when the instances have the attributes h.
ReprIn(h, v) ==
    IF v.k = "method"
    THEN IF v.im_self = None
         THEN "<unbound method " \o ClassName(v.im_class.id) \o "." \o v.im_func.id \o ">"
         ELSE "<bound method " \o ClassName(v.im_class.id) \o "." \o v.im_func.id
                  \o " of " \o ReprAtomIn(h, v.im_self) \o ">"
    ELSE ReprAtomIn(h, v)

\* repr(v), as the % r conversion and repr() compute it now.
Repr(v) == ReprIn(heap, v)

\* hasattr(v, '__name__'): functions, classes and method objects have a name;
\* instances, staticmethod, classmethod and property objects have none.  A
\* wrapper delegates the lookup to the object it wraps (__getattr__).
RECURSIVE HasName(_)
HasName(v) ==
    CASE v.k \in {"function", "class", "method"} -> TRUE
      [] v.k \in {"logged", "logged.__get__"} -> HasName(v._func)
      [] OTHER -> FALSE

\* v.__name__, for an object that has a name.
RECURSIVE Name(_)
Name(v) ==
    CASE v.k = "method" -> v.im_func.id
      [] v.k \in {"logged", "logged.__get__"} -> Name(v._func)
      [] OTHER -> v.id

-----------------------------------------------------------------------------
(* class _logged *)

\* _logged.__init__ without the test for the lambda name.
_logged_init_named(func) ==
    [k |-> "logged", _func |-> func,
     _repr |-> IF HasName(func) THEN Name(func) ELSE Repr(func)]

\* _logged.__init__: grab the function and get a printable representation.
_logged_init(func) ==
    [k |-> "logged", _func |-> func,
     _repr |-> IF HasName(func) /\ Name(func) # "<lambda>"
               THEN Name(func)
               ELSE Repr(func)]

RECURSIVE Join(_)
\* ', '.join(items)
Join(items) ==
    IF items = <<>> THEN ""
    ELSE IF Len(items) = 1 THEN items[1]
    ELSE items[1] \o ", " \o Join(Tail(items))

\* [repr(arg) for arg in args]
ReprArgs(args) == [i \in 1..Len(args) |-> Repr(args[i])]

\* ['%s=%r' % (name, value) for name, value in kwargs.iteritems()]; kwargs is
\* the sequence of the dictionary's items in its iteration order.
ReprKwargs(kwargs) ==
    [i \in 1..Len(kwargs) |-> kwargs[i][1] \o "=" \o Repr(kwargs[i][2])]

\* args_repr with the keyword arguments put first.
args_repr_kwfirst(args, kwargs) == Join(ReprKwargs(kwargs) \o ReprArgs(args))

\* args_repr of _logged.__call__
args_repr(args, kwargs) == Join(ReprArgs(args) \o ReprKwargs(kwargs))

\* A wrapper that keeps the file object _logged.log held when the module was
\* loaded (sys.stderr, the first one).
Sink_decoration(self) == 1

\* self.log, when a line is written: the wrapper has no attribute log of its
\* own, the lookup finds the one of the class, the last file object assigned.
Sink(self) == Len(sinks)

\* '[call] %s(%s)\n' % (self._repr, args_repr)
CallLine(self, ar) == "[call] " \o self._repr \o "(" \o ar \o ")\n"

\* An [exit] line that leaves the arguments out.
ExitLine_noargs(self, ar, retval) ==
    "[exit] " \o self._repr \o "() = " \o Repr(retval) \o "\n"

\* '[exit] %s(%s) = %r\n' % (self._repr, args_repr, retval)
ExitLine(self, ar, retval) ==
    "[exit] " \o self._repr \o "(" \o ar \o ") = " \o Repr(retval) \o "\n"

\* The call w(*args, **kwargs) binds to __call__(self, *args, **kwargs): a
\* keyword argument named like the first parameter cannot be bound.
BindsCall(kwargs) == \A i \in 1..Len(kwargs) : kwargs[i][1] # "self"

\* self._func(*args, **kwargs): the callable invoked and what it is handed.
Invocation(self, args, kwargs) ==
    [func |-> self._func, args |-> args, kwargs |-> kwargs]

\* A __call__ without its return statement.
Returned_none(retval) == None

\* return retval
Returned(retval) == retval

-----------------------------------------------------------------------------
(* class logged.__get__ *)

\* hasattr(obj, '__get__'): functions, staticmethod, classmethod and property
\* objects are descriptors, and so is a logged object (logged.__get__);
\* classes and other instances are not.
HasGet(obj) ==
    obj.k \in {"function", "staticmethod", "classmethod", "property", "logged"}

\* func.__get__(instance, owner) of the built-in descriptors.
DescrGet(func, instance, owner) ==
    CASE func.k = "function" -> Method(func, instance, owner)
      [] func.k = "staticmethod" -> Function(func.id)
      [] func.k = "classmethod" -> Method(Function(func.id), owner, Class("type"))
      [] OTHER -> func

\* logged.__get__.__init__ that always names the owner.
logged_get_init_owner(outer, instance, owner) ==
    LET func0 == outer._func
        func == IF HasGet(func0)
                   /\ (IF HasName(func0) THEN Name(func0) ELSE "") # "__new__"
                THEN DescrGet(func0, instance, owner)
                ELSE func0
        base == _logged_init(func)
    IN  [k |-> "logged.__get__", _func |-> func,
         _repr |-> Repr(owner) \o "." \o base._repr]

\* logged.__get__.__init__: bind the method and get a printable representation.
logged_get_init(outer, instance, owner) ==
    LET func0 == outer._func
        func == IF HasGet(func0)
                   /\ (IF HasName(func0) THEN Name(func0) ELSE "") # "__new__"
                THEN DescrGet(func0, instance, owner)
                ELSE func0
        base == _logged_init(func)
    IN  [k |-> "logged.__get__", _func |-> func,
         _repr |-> IF instance # None
                   THEN Repr(instance) \o "." \o base._repr
                   ELSE Repr(owner) \o "." \o base._repr]

-----------------------------------------------------------------------------
(* skip and class autolog *)

\* skip(func): func._skip_autolog = True
skip(func) == [k |-> "function", id |-> func.id, _skip_autolog |-> TRUE]

\* hasattr(_obj, '_skip_autolog'); a method object reads the attributes of its
\* function.
HasSkip(_obj) ==
    \/ "_skip_autolog" \in DOMAIN _obj
    \/ _obj.k = "method" /\ "_skip_autolog" \in DOMAIN _obj.im_func

\* callable(_obj)
Callable(_obj) ==
    \/ _obj.k \in {"function", "method", "class", "logged", "logged.__get__"}
    \/ _obj.k = "instance" /\ _obj.class \in CallableClasses

\* A rebuilt property whose accessors are wrapped whether set or not.
LoggedAccessor_always(accessor) == _logged_init(accessor)

\* The accessor a rebuilt property gets: logged(getattr(obj, _key)) if that
\* accessor is set, and none otherwise (it is left out of _dict).
LoggedAccessor(accessor) ==
    IF accessor # None THEN _logged_init(accessor) ELSE None

\* The body of the loop with callable(obj) for callable(obj.__get__(None, cls)).
Decorated_noget(key, obj) ==
    IF key = "__repr__" THEN obj
    ELSE IF HasSkip(obj) THEN obj
    ELSE IF Callable(obj) THEN _logged_init(obj)
    ELSE IF obj.k = "property"
         THEN Property(LoggedAccessor(obj.fget), LoggedAccessor(obj.fset),
                       LoggedAccessor(obj.fdel))
    ELSE obj

\* The body of the loop without the test for the key '__repr__'.
Decorated_repr(key, obj) ==
    LET _obj == IF HasGet(obj) THEN DescrGet(obj, None, Class("autolog")) ELSE obj
    IN  IF HasSkip(_obj) THEN obj
        ELSE IF Callable(_obj) THEN _logged_init(obj)
        ELSE IF obj.k = "property"
             THEN Property(LoggedAccessor(obj.fget), LoggedAccessor(obj.fset),
                           LoggedAccessor(obj.fdel))
        ELSE obj

\* The body of the loop of autolog.__new__ for one item: the object stored
\* under key in the namespace of the class.
Decorated(key, obj) ==
    LET _obj == IF HasGet(obj) THEN DescrGet(obj, None, Class("autolog")) ELSE obj
    IN  IF key = "__repr__" THEN obj
        ELSE IF HasSkip(_obj) THEN obj
        ELSE IF Callable(_obj) THEN _logged_init(obj)
        ELSE IF obj.k = "property"
             THEN Property(LoggedAccessor(obj.fget), LoggedAccessor(obj.fset),
                           LoggedAccessor(obj.fdel))
        ELSE obj

\* obj.__get__(None, cls) of a logged object instantiates logged.__get__ with
\* one argument too few: a TypeError, and no class is created.
NewRaises(dict) ==
    \E key \in DOMAIN dict : key # "__repr__" /\ dict[key].k = "logged"

\* autolog.__new__(cls, name, bases, dict)
autolog_new(name, bases, dict) ==
    [name |-> name, bases |-> bases, meta |-> "autolog",
     dict |-> [key \in DOMAIN dict |-> Decorated(key, dict[key])]]

\* autolog(T) that decorates the namespace of T itself, not a copy.
Converted_inplace(T, new) ==
    [c \in DOMAIN classes \cup {new} |->
        IF c = new
        THEN autolog_new(classes[T].name, classes[T].bases, classes[T].dict)
        ELSE IF c = T
        THEN [classes[T] EXCEPT
                 !.dict = autolog_new(classes[T].name, classes[T].bases,
                                      classes[T].dict).dict]
        ELSE classes[c]]

\* The class namespaces after autolog(T), the alternative signature: the new
\* class is built from a copy of T's namespace and stored under the key new.
Converted(T, new) ==
    [c \in DOMAIN classes \cup {new} |->
        IF c = new
        THEN autolog_new(classes[T].name, classes[T].bases, classes[T].dict)
        ELSE classes[c]]

-----------------------------------------------------------------------------
(* The program the decorator is applied to: the functions of the test suite *)

\* The __init__ of the class Foo, which takes no argument and does nothing.
FooInit == [k |-> "function", id |-> "__init__", code |-> "Foo.__init__"]

\* The parameter names of the functions.
Params(f) ==
    CASE f = "<lambda>" -> <<"self">>
      [] f = "Foo.__init__" -> <<"self">>
      [] f = "__call__" -> <<"self", "b">>
      [] f = "__init__" -> <<"self", "name">>
      [] f = "show" -> <<"self", "arg">>
      [] f = "what" -> <<"cls">>
      [] f = "add" -> <<"a", "b">>
      [] f = "__getThought" -> <<"self">>
      [] f = "__setThought" -> <<"self", "thought">>
      [] f = "__delThought" -> <<"self">>
      [] f = "__repr__" -> <<"self">>
      [] f = "squares" -> <<"n">>
      [] OTHER -> <<>>

\* The function that runs when the callable func is called: a method object
\* runs its function, a callable object its __call__, a class its constructor.
Code(func) ==
    LET body(f) == IF "code" \in DOMAIN f THEN f.code ELSE f.id
    IN  CASE func.k = "method" -> body(func.im_func)
          [] func.k = "instance" -> "__call__"
          [] OTHER -> body(func)

\* The positional arguments the function gets: a bound method and a callable
\* object put the object they are bound to first.
FullArgs(func, args) ==
    CASE func.k = "method" /\ func.im_self # None -> <<func.im_self>> \o args
      [] func.k = "instance" -> <<func>> \o args
      [] OTHER -> args

\* The argument lists the program calls with; kwargs lists the items of the
\* keyword dictionary in its iteration order, which Python leaves open.
ArgLists ==
    { [args |-> <<>>, kwargs |-> <<>>],
      [args |-> <<PyInt("2")>>, kwargs |-> <<>>],
      [args |-> <<o1>>, kwargs |-> << <<"arg", PyStr("s")>> >>],
      [args |-> <<PyInt("2")>>, kwargs |-> << <<"b", PyStr("s")>> >>],
      [args |-> <<>>, kwargs |-> << <<"self", PyInt("2")>> >>],
      [args |-> <<>>, kwargs |-> << <<"a", PyInt("2")>>, <<"b", PyStr("s")>> >>],
      [args |-> <<>>, kwargs |-> << <<"b", PyStr("s")>>, <<"a", PyInt("2")>> >>] }

\* The call func(*al.args, **al.kwargs) matches the parameters of the function.
Fits(func, al) ==
    LET P == Params(Code(func))
        pos == FullArgs(func, al.args)
    IN  /\ Len(pos) + Len(al.kwargs) = Len(P)
        /\ {al.kwargs[i][1] : i \in 1..Len(al.kwargs)}
              = {P[i] : i \in (Len(pos) + 1)..Len(P)}

\* The value the function's parameter number i is bound to.
Arg(func, args, kwargs, i) ==
    LET P == Params(Code(func))
        pos == FullArgs(func, args)
    IN  IF i <= Len(pos) THEN pos[i]
        ELSE (CHOOSE kv \in {kwargs[j] : j \in 1..Len(kwargs)} : kv[1] = P[i])[2]

\* The generator object number g, made by a call of the generator function f.
Generator(f, g) == [k |-> "generator", id |-> f, gen |-> g]

\* The decimal numeral of a small number, and the number of a numeral.
IntStr(n) == <<"0", "1", "2", "3", "4", "5", "6", "7", "8", "9">>[n + 1]
IntOf(v) == CHOOSE n \in 0..9 : IntStr(n) = v.id

\* The function body runs to its return statement only if the object it
\* works on is an instance that has the attribute; otherwise it raises.
CanReturn(func, args, kwargs) ==
    CASE Code(func) \in {"__init__", "__setThought", "__delThought"} ->
            Arg(func, args, kwargs, 1).k = "instance"
      [] Code(func) = "__getThought" ->
            /\ Arg(func, args, kwargs, 1).k = "instance"
            /\ heap[Arg(func, args, kwargs, 1).id].thought # NoValue
      [] OTHER -> TRUE

\* The value the function returns.
ReturnValue(func, args, kwargs) ==
    CASE Code(func) = "<lambda>" -> PyFalse
      [] Code(func) = "__call__" -> PyInt("42")
      [] Code(func) = "what" -> PyStr(ClassName(Arg(func, args, kwargs, 1).id))
      [] Code(func) = "add" -> PyInt("4")
      [] Code(func) = "__getThought" -> heap[Arg(func, args, kwargs, 1).id].thought
      [] Code(func) = "Inner" -> Instance("in1", "Inner")
      [] Code(func) = "squares" -> Generator("squares", Len(gens) + 1)
      [] OTHER -> None

\* The instance attributes after the function has run.
HeapAfter(func, args, kwargs) ==
    CASE Code(func) = "__init__" ->
            [heap EXCEPT ![Arg(func, args, kwargs, 1).id].name = Arg(func, args, kwargs, 2)]
      [] Code(func) = "__setThought" ->
            [heap EXCEPT ![Arg(func, args, kwargs, 1).id].thought = Arg(func, args, kwargs, 2)]
      [] Code(func) = "__delThought" ->
            [heap EXCEPT ![Arg(func, args, kwargs, 1).id].thought = NoValue]
      [] OTHER -> heap

\* The generator objects after the function has run: a call of the generator
\* function squares makes one that has not started (i counts the values it
\* has yielded); no other function makes any.
GensAfter(func, args, kwargs) ==
    IF Code(func) = "squares"
    THEN Append(gens, [n |-> IntOf(Arg(func, args, kwargs, 1)), i |-> 0,
                       done |-> FALSE])
    ELSE gens

\* The namespace of the class statement of the test program: the __init__
\* and __repr__ of Torinese and the property of Thinker_autolog.
TorineseNS ==
    [key \in {"__init__", "__repr__", "thought"} |->
        IF key = "thought"
        THEN Property(Function("__getThought"), Function("__setThought"), None)
        ELSE Function(key)]

\* The classes that exist before any class is handed to autolog, created by type.
PlainClass(name, dict) ==
    [name |-> name, bases |-> <<"object">>, meta |-> "type", dict |-> dict]

-----------------------------------------------------------------------------
(* Initial states *)

\* Bound on the wrapper calls of a behaviour that starts from an arbitrary
\* class namespace.
MetaCalls == 1

Instances == {o1, Instance("o2", "autolog(Foo)"), add21, Instance("in1", "Inner")}

\* What is common to the initial states: no call has been made, the instances
\* have no name yet (the __init__ that sets it is one of the calls to come)
\* and their thought is None, as the __init__ of Thinker_autolog leaves it,
\* Adder(21) has been constructed (undecorated), and the functions decorated
\* at module level have their wrappers.
InitWith(ns, calls) ==
    /\ log = <<>>
    /\ stack = <<>>
    /\ hist = <<>>
    /\ held = NoValue
    /\ heap = [o \in {i.id : i \in Instances} |->
                 [name |-> IF o = "add21" THEN PyInt("21") ELSE NoValue,
                  thought |-> None]]
    /\ classes = [c \in {"Adder", "Inner", "Foo"} |->
                    PlainClass(c, IF c = "Adder"
                                  THEN [key \in {"__init__", "__repr__", "__call__"}
                                           |-> Function(key)]
                                  ELSE IF c = "Foo"
                                  THEN [key \in {"__init__", "x"} |->
                                           IF key = "x" THEN PyInt("5")
                                           ELSE FooInit]
                                  ELSE <<>>)]
    /\ pending = ns
    /\ budget = calls
    /\ made = <<>>
    /\ plain = {_logged_init(Function("add")), _logged_init(Function("<lambda>")),
                _logged_init(add21)}
    /\ attrs = [d \in {"add", "logged(add)"} |->
                  IF d = "add" THEN <<>>
                  ELSE [n \in {"_func", "_repr"} |->
                           IF n = "_func" THEN Function("add") ELSE PyStr("add")]]
    /\ got = NoValue
    /\ sinks = <<0>>
    /\ dest = <<>>
    /\ gens = <<>>

\* The program of the test suite: the class statement of Torinese is next.
Init == InitWith(TorineseNS, MaxCalls)

-----------------------------------------------------------------------------
(* _logged.__call__ *)

\* The record the history keeps of a wrapper call: the wrapper and what it
\* was called with, the member access it came from (via), where its lines
\* are in the log, what the wrapped callable was handed and returned, the
\* instance attributes when the call started (heap0) and when the wrapped
\* callable returned (heap1), what the wrapper returned, and the exception
\* the wrapped callable raised (fexc) and the one that left the wrapper (wexc).
CallRecord(self, args, kwargs, via, status, at, invoked) ==
    [self |-> self, args |-> args, kwargs |-> kwargs, via |-> via,
     status |-> status, depth |-> Len(stack), callAt |-> at, exitAt |-> 0,
     invoked |-> invoked, heap0 |-> heap, heap1 |-> heap,
     fret |-> NoValue, wret |-> NoValue, fexc |-> NoValue, wexc |-> NoValue]

\* The wrapper self is called with args and kwargs, up to the point where the
\* wrapped callable starts to run: the arguments are formatted, the [call]
\* line is written and self._func is invoked.  A call that cannot be bound
\* to the parameters of __call__ raises TypeError before any of this.
Enter(self, args, kwargs, via) ==
    /\ budget > 0
    /\ budget' = budget - 1
    /\ IF BindsCall(kwargs)
       THEN LET ar == args_repr(args, kwargs)
                written == Append(log, CallLine(self, ar))
            IN  /\ log' = written
                /\ dest' = Append(dest, Sink(self))
                /\ stack' = Append(stack,
                       [self |-> self, args |-> args, kwargs |-> kwargs,
                        args_repr |-> ar, call |-> Len(hist) + 1,
                        retval |-> NoValue])
                /\ hist' = Append(hist,
                       CallRecord(self, args, kwargs, via, "running", Len(written),
                           << [inv |-> Invocation(self, args, kwargs),
                               at |-> Len(written)] >>))
       ELSE /\ hist' = Append(hist,
                       CallRecord(self, args, kwargs, via, "TypeError", 0, <<>>))
            /\ UNCHANGED <<log, dest, stack>>

\* The code that is running, once the module-level statements are done: the
\* body of the innermost wrapped callable, or the main program.  It can make
\* calls until its return statement.
Running ==
    /\ "autolog(Foo)" \in DOMAIN classes
    /\ IF stack = <<>> THEN TRUE ELSE stack[Len(stack)].retval = NoValue

\* The running code calls a wrapper made at module level.
Call(self, al) ==
    /\ Running
    /\ self \in plain
    /\ Fits(self._func, al)
    /\ Enter(self, al.args, al.kwargs, NoValue)
    /\ UNCHANGED <<sinks, gens, held, heap, classes, pending, made, plain, attrs, got>>

\* The wrapped callable of the innermost call reaches its return statement.
FuncReturns ==
    /\ stack # <<>>
    /\ LET top == stack[Len(stack)]
           func == top.self._func
       IN  /\ top.retval = NoValue
           /\ CanReturn(func, top.args, top.kwargs)
           /\ heap' = HeapAfter(func, top.args, top.kwargs)
           /\ stack' = [stack EXCEPT ![Len(stack)].retval =
                            ReturnValue(func, top.args, top.kwargs)]
           /\ hist' = [hist EXCEPT ![top.call].fret =
                            ReturnValue(func, top.args, top.kwargs),
                                   ![top.call].heap1 =
                            HeapAfter(func, top.args, top.kwargs)]
           /\ gens' = GensAfter(func, top.args, top.kwargs)
    /\ UNCHANGED <<sinks, log, dest, held, classes, pending, budget, made, plain, attrs, got>>

\* A __call__ that formats the arguments again for the [exit] line.
Exit_reformat ==
    /\ stack # <<>>
    /\ LET top == stack[Len(stack)]
       IN  /\ top.retval # NoValue
           /\ log' = Append(log, ExitLine(top.self, args_repr(top.args, top.kwargs),
                                          top.retval))
           /\ dest' = Append(dest, Sink(top.self))
           /\ hist' = [hist EXCEPT ![top.call].status = "returned",
                                   ![top.call].exitAt = Len(log) + 1,
                                   ![top.call].wret = Returned(top.retval)]
           /\ stack' = SubSeq(stack, 1, Len(stack) - 1)
    /\ UNCHANGED <<sinks, gens, held, heap, classes, pending, budget, made, plain,
                   attrs, got>>

\* The rest of _logged.__call__: the [exit] line is written and the value
\* is returned to the caller.
Exit ==
    /\ stack # <<>>
    /\ LET top == stack[Len(stack)]
       IN  /\ top.retval # NoValue
           /\ log' = Append(log, ExitLine(top.self, top.args_repr, top.retval))
           /\ dest' = Append(dest, Sink(top.self))
           /\ hist' = [hist EXCEPT ![top.call].status = "returned",
                                   ![top.call].exitAt = Len(log) + 1,
                                   ![top.call].wret = Returned(top.retval)]
           /\ stack' = SubSeq(stack, 1, Len(stack) - 1)
    /\ UNCHANGED <<sinks, gens, held, heap, classes, pending, budget, made, plain, attrs, got>>

\* The exception the function raises when it raises one: a getter that
\* finds no attribute, an addition of a number and a string, or any other.
ExceptionOf(func) ==
    CASE Code(func) = "__getThought" -> PyExc("AttributeError")
      [] Code(func) = "add" -> PyExc("TypeError")
      [] OTHER -> PyExc("Exception")

\* The exception that leaves __call__ when self._func raises exc: the call is
\* in no try statement.
Propagated(exc) == exc

\* The calls that the n innermost frames of the stack belong to.
Unwound(n) == {stack[j].call : j \in (Len(stack) - n + 1)..Len(stack)}

\* A __call__ that writes the [exit] line in a finally clause, with None for
\* the value that is missing.
Raise_finally(n) ==
    /\ stack # <<>>
    /\ stack[Len(stack)].retval = NoValue
    /\ n \in 1..Len(stack)
    /\ stack' = SubSeq(stack, 1, Len(stack) - n)
    /\ log' = log \o [k \in 1..n |->
                         ExitLine(stack[Len(stack) + 1 - k].self,
                                  stack[Len(stack) + 1 - k].args_repr, None)]
    /\ dest' = dest \o [k \in 1..n |-> Sink(stack[Len(stack) + 1 - k].self)]
    /\ hist' = [i \in 1..Len(hist) |->
                  IF i \in Unwound(n)
                  THEN [hist[i] EXCEPT
                           !.status = "raised",
                           !.exitAt = Len(log) + Len(stack) - hist[i].depth,
                           !.fexc = ExceptionOf(stack[Len(stack)].self._func),
                           !.wexc = Propagated(ExceptionOf(stack[Len(stack)].self._func))]
                  ELSE hist[i]]
    /\ UNCHANGED <<sinks, gens, held, heap, classes, pending, budget, made, plain,
                   attrs, got>>

\* The wrapped callable of the innermost call raises an exception, which
\* passes through the n innermost calls before it is caught (by the body of
\* an outer call or by the main program).  __call__ has no handler: the
\* calls it passes through end without writing anything.
Raise(n) ==
    /\ stack # <<>>
    /\ stack[Len(stack)].retval = NoValue
    /\ n \in 1..Len(stack)
    /\ stack' = SubSeq(stack, 1, Len(stack) - n)
    /\ hist' = [i \in 1..Len(hist) |->
                  IF i \in Unwound(n)
                  THEN [hist[i] EXCEPT
                           !.status = "raised",
                           !.fexc = ExceptionOf(stack[Len(stack)].self._func),
                           !.wexc = Propagated(ExceptionOf(stack[Len(stack)].self._func))]
                  ELSE hist[i]]
    /\ UNCHANGED <<sinks, gens, log, dest, held, heap, classes, pending, budget, made, plain, attrs, got>>

-----------------------------------------------------------------------------
(* Class statements, member access and properties *)

\* The class statement of Torinese runs: its namespace goes to autolog.__new__.
ClassStmt ==
    /\ pending # NoValue
    /\ stack = <<>>
    /\ pending' = NoValue
    /\ IF NewRaises(pending)
       THEN /\ got' = [op |-> "class", raised |-> "TypeError"]
            /\ UNCHANGED <<classes, made>>
       ELSE /\ classes' = [c \in DOMAIN classes \cup {"Torinese"} |->
                             IF c = "Torinese"
                             THEN autolog_new("Torinese", <<"object">>, pending)
                             ELSE classes[c]]
            /\ made' = [c \in DOMAIN made \cup {"Torinese"} |->
                          IF c = "Torinese" THEN pending ELSE made[c]]
            /\ got' = [op |-> "class", raised |-> ""]
    /\ UNCHANGED <<sinks, gens, log, dest, stack, hist, held, heap, budget, plain, attrs>>

\* Foo = autolog(Foo), for the class Foo that type created; the statement
\* follows the class statement, before the program makes its calls.
Convert ==
    /\ "Torinese" \in DOMAIN classes
    /\ "autolog(Foo)" \notin DOMAIN classes
    /\ classes' = Converted("Foo", "autolog(Foo)")
    /\ made' = [c \in DOMAIN made \cup {"autolog(Foo)"} |->
                  IF c = "autolog(Foo)" THEN classes["Foo"].dict ELSE made[c]]
    /\ UNCHANGED <<sinks, gens, log, dest, stack, hist, held, heap, pending, budget, plain, attrs, got>>

\* The instances of the class stored under c.
InstancesOf(c) == {i \in Instances : i.class = c}

\* The running code reads the member key of class c through an instance or
\* (instance = None) through the class; the member is a logged object, whose
\* type's __get__ makes the logged.__get__ object it gets.
Access(c, key, instance) ==
    /\ Running
    /\ held = NoValue
    /\ budget > 0
    /\ c \in DOMAIN classes
    /\ key \in DOMAIN classes[c].dict
    /\ classes[c].dict[key].k = "logged"
    /\ instance \in InstancesOf(c) \cup {None}
    /\ held' = [obj |-> logged_get_init(classes[c].dict[key], instance, Class(c)),
                key |-> key, instance |-> instance, owner |-> c, heap |-> heap]
    /\ UNCHANGED <<sinks, gens, log, dest, stack, hist, heap, classes, pending, budget, made, plain,
                   attrs, got>>

\* The object the member access produced is called.
CallHeld(al) ==
    /\ held # NoValue
    /\ Fits(held.obj._func, al)
    /\ Enter(held.obj, al.args, al.kwargs, held)
    /\ held' = NoValue
    /\ UNCHANGED <<sinks, gens, heap, classes, pending, made, plain, attrs, got>>

\* The properties in the namespace of the class of instance o.
PropertiesOf(o) ==
    IF o.class \in DOMAIN classes
    THEN {key \in DOMAIN classes[o.class].dict : classes[o.class].dict[key].k = "property"}
    ELSE {}

\* The property calls one of its accessors, a wrapper autolog made.
CallAccessor(accessor, args) ==
    /\ Running
    /\ held = NoValue
    /\ accessor # None
    /\ accessor.k = "logged"
    /\ Enter(accessor, args, <<>>, NoValue)
    /\ UNCHANGED <<sinks, gens, held, heap, classes, pending, made, plain, attrs, got>>

\* value = o.key
PropRead(o, key) ==
    /\ key \in PropertiesOf(o)
    /\ CallAccessor(classes[o.class].dict[key].fget, <<o>>)

\* o.key = value
PropAssign(o, key, value) ==
    /\ key \in PropertiesOf(o)
    /\ CallAccessor(classes[o.class].dict[key].fset, <<o, value>>)

\* del o.key
PropDelete(o, key) ==
    /\ key \in PropertiesOf(o)
    /\ CallAccessor(classes[o.class].dict[key].fdel, <<o>>)

\* repr(o): the __repr__ of o's class is looked up in the class and bound to
\* o.  The function itself writes nothing; a wrapper in its place is called
\* like any member.
ReprCall(o) ==
    /\ Running
    /\ held = NoValue
    /\ o.class \in DOMAIN made
    /\ "__repr__" \in DOMAIN classes[o.class].dict
    /\ IF /\ "__repr__" \in DOMAIN classes[o.class].dict
          /\ classes[o.class].dict["__repr__"].k = "logged"
       THEN /\ Enter(logged_get_init(classes[o.class].dict["__repr__"], o,
                                     Class(o.class)), <<>>, <<>>,
                      [obj |-> NoValue, key |-> "__repr__", instance |-> o,
                       owner |-> o.class, heap |-> heap])
            /\ UNCHANGED got
       ELSE /\ budget > 0
            /\ budget' = budget - 1
            /\ got' = [op |-> "repr", obj |-> o, value |-> Repr(o)]
            /\ UNCHANGED <<log, dest, stack, hist>>
    /\ UNCHANGED <<sinks, gens, held, heap, classes, pending, made, plain, attrs>>

-----------------------------------------------------------------------------
(* Decoration at run time, generators and the file object of the log *)

\* @logged def f ..., in the body of a test: a wrapper more.
Decorate(f) ==
    /\ Running
    /\ stack = <<>>
    /\ _logged_init(Function(f)) \notin plain
    /\ plain' = plain \cup {_logged_init(Function(f))}
    /\ UNCHANGED <<log, dest, stack, hist, held, heap, classes, pending, budget,
                   made, attrs, got, sinks, gens>>

\* The generator objects that a wrapper call has returned to its caller.
Returned_gens ==
    {hist[i].wret.gen : i \in {j \in 1..Len(hist) : /\ hist[j].status = "returned"
                                                   /\ hist[j].wret.k = "generator"}}

\* retval.next(), on the generator object number g: the body of squares runs
\* to its next yield, or to its end (StopIteration).  next is a method of
\* the generator object: no wrapper is called.
GenNext(g) ==
    /\ Running
    /\ g \in Returned_gens
    /\ ~gens[g].done
    /\ IF gens[g].i < gens[g].n
       THEN /\ gens' = [gens EXCEPT ![g].i = @ + 1]
            /\ got' = [op |-> "next", gen |-> g, raised |-> "",
                       value |-> PyInt(IntStr(gens[g].i * gens[g].i))]
       ELSE /\ gens' = [gens EXCEPT ![g].done = TRUE]
            /\ got' = [op |-> "next", gen |-> g, raised |-> "StopIteration",
                       value |-> NoValue]
    /\ UNCHANGED <<log, dest, stack, hist, held, heap, classes, pending, budget,
                   made, plain, attrs, sinks>>

\* _logged.log = StringIO.StringIO(), as setUp does before each test (the
\* file object it replaces is left as it is).
SetUp ==
    /\ Len(sinks) < MaxSinks
    /\ sinks' = Append(sinks, Len(log))
    /\ UNCHANGED <<log, dest, stack, hist, held, heap, classes, pending, budget,
                   made, plain, attrs, got, gens>>

-----------------------------------------------------------------------------
(* Attribute access on a wrapper: logged(add) and the function add *)

\* The names and values the program uses in attribute operations.
AttrNames == {"x", "tag", "_repr", "log"}
AttrValues == {PyInt("2"), PyStr("s")}

\* The attributes of the decorator's class: normal lookup finds them on any
\* wrapper, after the wrapper's own _func and _repr.
ClassAttrs == {"log", "__call__", "__init__", "__get__", "__doc__",
               "__getattr__", "__setattr__", "__delattr__"}

\* The decorator's own attributes.
OwnAttrs == {"_func", "_repr"} \cup ClassAttrs

\* The dictionary d with d[n] = v, and d without n.
DictSet(d, n, v) == [m \in DOMAIN d \cup {n} |-> IF m = n THEN v ELSE d[m]]
DictDel(d, n) == [m \in DOMAIN d \ {n} |-> d[m]]

\* _logged.__getattr__(self, name): getattr(self._func, name)
_logged_getattr(name) ==
    IF name \in DOMAIN attrs["add"]
    THEN [op |-> "getattr", name |-> name, value |-> attrs["add"][name], raised |-> ""]
    ELSE [op |-> "getattr", name |-> name, value |-> NoValue,
          raised |-> "AttributeError"]

\* getattr(wrapper, name): __getattr__ is called only when the normal lookup
\* (the wrapper's dictionary, then its class) does not find the name.
WrapperGet(name) ==
    IF name \in DOMAIN attrs["logged(add)"]
    THEN [op |-> "getattr", name |-> name, value |-> attrs["logged(add)"][name],
          raised |-> ""]
    ELSE IF name \in ClassAttrs
    THEN [op |-> "getattr", name |-> name,
          value |-> [k |-> "classattr", id |-> name], raised |-> ""]
    ELSE _logged_getattr(name)

\* A __setattr__ that sets the attribute on the wrapper (object.__setattr__).
_logged_setattr_own(name, value) ==
    [attrs EXCEPT !["logged(add)"] = DictSet(attrs["logged(add)"], name, value)]

\* _logged.__setattr__(self, name, value): setattr(self._func, name, value)
_logged_setattr(name, value) ==
    [attrs EXCEPT !["add"] = DictSet(attrs["add"], name, value)]

\* _logged.__delattr__(self, name): delattr(self._func, name)
_logged_delattr(name) ==
    [attrs EXCEPT !["add"] = DictDel(attrs["add"], name)]

\* value = wrapper.name
GetAttr(name) ==
    /\ got' = WrapperGet(name)
    /\ UNCHANGED <<sinks, gens, log, dest, stack, hist, held, heap, classes, pending, budget, made,
                   plain, attrs>>

\* wrapper.name = value
SetAttr(name, value) ==
    /\ attrs' = _logged_setattr(name, value)
    /\ got' = [op |-> "setattr", name |-> name, value |-> value, raised |-> ""]
    /\ UNCHANGED <<sinks, gens, log, dest, stack, hist, held, heap, classes, pending, budget, made, plain>>

\* del wrapper.name: delattr raises AttributeError if the function has no
\* such attribute.
DelAttr(name) ==
    /\ IF name \in DOMAIN attrs["add"]
       THEN /\ attrs' = _logged_delattr(name)
            /\ got' = [op |-> "delattr", name |-> name, value |-> NoValue, raised |-> ""]
       ELSE /\ got' = [op |-> "delattr", name |-> name, value |-> NoValue,
                       raised |-> "AttributeError"]
            /\ UNCHANGED attrs
    /\ UNCHANGED <<sinks, gens, log, dest, stack, hist, held, heap, classes, pending, budget, made, plain>>

\* add.name = value, on the function itself.
SetDirect(name, value) ==
    /\ attrs' = [attrs EXCEPT !["add"] = DictSet(attrs["add"], name, value)]
    /\ got' = [op |-> "direct", name |-> name, value |-> value, raised |-> ""]
    /\ UNCHANGED <<sinks, gens, log, dest, stack, hist, held, heap, classes, pending, budget, made, plain>>

-----------------------------------------------------------------------------
(* Specifications *)

\* The program of the test suite: calls of the module-level wrappers and of
\* the members of the autologged classes, nested in each other.
Next ==
    \/ ClassStmt
    \/ Convert
    \/ \E self \in plain, al \in ArgLists : Call(self, al)
    \/ \E o \in Instances : Access(o.class, "__init__", o)
    \/ \E al \in ArgLists : CallHeld(al)
    \/ \E o \in Instances : PropRead(o, "thought")
    \/ \E o \in Instances : PropAssign(o, "thought", PyInt("2"))
    \/ \E o \in Instances : ReprCall(o)
    \/ FuncReturns
    \/ Exit
    \/ \E n \in 1..MaxCalls : Raise(n)

Spec == Init /\ [][Next]_vars

\* The objects a class namespace may hold under the key m.
Members ==
    {Function("show"), skip(Function("show")), StaticMethod("add"),
     ClassMethod("what"), Class("Inner"), add21, PyInt("5"),
     _logged_init(Function("show"))}

\* The properties a class namespace may hold under the key thought.
Properties ==
    {Property(Function("__getThought"), None, None),
     Property(Function("__getThought"), Function("__setThought"), None),
     Property(Function("__getThought"), Function("__setThought"),
              Function("__delThought")),
     Property(None, Function("__setThought"), None)}

\* The class namespaces handed to the metaclass.
Namespaces ==
    {[key \in {"__init__", "__repr__", "m", "thought"} |->
        CASE key = "m" -> m
          [] key = "thought" -> p
          [] OTHER -> Function(key)] : m \in Members, p \in Properties}

\* The same program with an arbitrary namespace in the class statement.
InitMeta == \E ns \in Namespaces : InitWith(ns, MetaCalls)

\* With it come the member m, read through an instance or through the class,
\* and properties that have a deleter.
NextMeta ==
    \/ Next
    \/ \E c \in DOMAIN classes, instance \in Instances \cup {None} :
          Access(c, "m", instance)
    \/ \E o \in Instances : PropDelete(o, "thought")

SpecMeta == InitMeta /\ [][NextMeta]_vars

\* The test of the generator: the module-level statements, the decoration of
\* squares, calls of the wrappers and iteration of the generators.
NextGen ==
    \/ ClassStmt
    \/ Convert
    \/ Decorate("squares")
    \/ \E self \in plain, al \in ArgLists : Call(self, al)
    \/ \E g \in 1..Len(gens) : GenNext(g)
    \/ FuncReturns
    \/ Exit
    \/ \E n \in 1..MaxCalls : Raise(n)

SpecGen == Init /\ [][NextGen]_vars

\* Calls of the wrappers with setUp replacing the file object between them
\* or while they run.
NextSink ==
    \/ ClassStmt
    \/ Convert
    \/ SetUp
    \/ \E self \in plain, al \in ArgLists : Call(self, al)
    \/ FuncReturns
    \/ Exit
    \/ \E n \in 1..MaxCalls : Raise(n)

SpecSink == Init /\ [][NextSink]_vars

\* Attribute operations on the wrapper logged(add) and on add itself.
NextAttr ==
    \/ \E name \in AttrNames : GetAttr(name)
    \/ \E name \in AttrNames, value \in AttrValues : SetAttr(name, value)
    \/ \E name \in AttrNames : DelAttr(name)
    \/ \E name \in AttrNames, value \in AttrValues : SetDirect(name, value)

SpecAttr == Init /\ [][NextAttr]_vars

-----------------------------------------------------------------------------
(* What the log is expected to hold *)

Calls == 1..Len(hist)

\* The argument text expected for a call: the representations of the
\* positional arguments in order, then name=representation for each keyword
\* argument, separated by ", "; h holds the instance attributes at the call.
ExpectedItem(h, args, kwargs, i) ==
    IF i <= Len(args) THEN ReprIn(h, args[i])
    ELSE kwargs[i - Len(args)][1] \o "=" \o ReprIn(h, kwargs[i - Len(args)][2])

RECURSIVE ExpectedFrom(_, _, _, _)
ExpectedFrom(h, args, kwargs, i) ==
    IF i > Len(args) + Len(kwargs) THEN ""
    ELSE IF i = Len(args) + Len(kwargs) THEN ExpectedItem(h, args, kwargs, i)
    ELSE ExpectedItem(h, args, kwargs, i) \o ", " \o ExpectedFrom(h, args, kwargs, i + 1)

ExpectedArgs(h, args, kwargs) == ExpectedFrom(h, args, kwargs, 1)

\* The positions in the log of the lines of call i.
LinesOf(i) == {hist[i].callAt, hist[i].exitAt} \ {0}

-----------------------------------------------------------------------------
(* Claims *)

\* C1: every wrapper call whose wrapped callable returned normally has
\* exactly two lines in the log: '[call] <name>(<args>)', written before the
\* callable was invoked, and after it '[exit] <name>(<args>) = <repr of the
\* return value>', written after the callable returned; <args> lists the
\* positional arguments before the keyword arguments (name=repr).  No line
\* of the log belongs to no call or to two.
C1_CallAndExitRecords ==
    /\ \A i \in Calls :
          hist[i].status = "returned" =>
             LET r == hist[i]
                 text == r.self._repr \o "("
                            \o ExpectedArgs(r.heap0, r.args, r.kwargs) \o ")"
             IN  /\ 0 < r.callAt /\ r.callAt < r.exitAt /\ r.exitAt <= Len(log)
                 /\ Cardinality(LinesOf(i)) = 2
                 /\ log[r.callAt] = "[call] " \o text \o "\n"
                 /\ log[r.exitAt] = "[exit] " \o text \o " = "
                                       \o ReprIn(r.heap1, r.fret) \o "\n"
                 /\ Len(r.invoked) = 1
                 /\ r.callAt <= r.invoked[1].at
                 /\ r.invoked[1].at < r.exitAt
    /\ \A p \in 1..Len(log) : Cardinality({i \in Calls : p \in LinesOf(i)}) = 1

\* A call with a positional and a keyword argument has returned.
C1_Witness ==
    \E i \in Calls : /\ hist[i].status = "returned"
                     /\ Len(hist[i].args) > 0
                     /\ Len(hist[i].kwargs) > 0

\* C2: every wrapper call that has ended has invoked the wrapped callable
\* exactly once, with the positional and keyword arguments the wrapper was
\* called with, and a call that returned has returned the value the wrapped
\* callable returned.
C2_Transparent ==
    \A i \in Calls :
       hist[i].status # "running" =>
          /\ Len(hist[i].invoked) = 1
          /\ hist[i].invoked[1].inv.func = hist[i].self._func
          /\ hist[i].invoked[1].inv.args = hist[i].args
          /\ hist[i].invoked[1].inv.kwargs = hist[i].kwargs
          /\ hist[i].status = "returned" => hist[i].wret = hist[i].fret

\* The operation the last attribute operation or statement was.
Op(g) == IF "op" \in DOMAIN g THEN g.op ELSE ""

\* C3: an attribute operation on the wrapper, for a name that is not one
\* of the decorator's own, acts on the wrapped object: a read gives the
\* wrapped object's value (or its AttributeError), an assignment leaves the
\* value in the wrapped object's dictionary, where a direct read finds it,
\* and a deletion removes the name from it; the wrapper's own dictionary
\* keeps just _func and _repr.
C3_Delegation ==
    /\ (Op(got) = "getattr" /\ got.name \notin OwnAttrs) =>
          IF got.name \in DOMAIN attrs["add"]
          THEN got.raised = "" /\ got.value = attrs["add"][got.name]
          ELSE got.raised = "AttributeError"
    /\ (Op(got) = "setattr" /\ got.name \notin OwnAttrs) =>
          /\ got.name \in DOMAIN attrs["add"]
          /\ attrs["add"][got.name] = got.value
    /\ (Op(got) = "delattr" /\ got.name \notin OwnAttrs /\ got.raised = "") =>
          got.name \notin DOMAIN attrs["add"]
    /\ \A n \in AttrNames \ OwnAttrs : n \notin DOMAIN attrs["logged(add)"]

\* x has just been set through the wrapper.
C3_Witness == Op(got) = "setattr" /\ got.name = "x"

\* The display name expected for a wrapper of func: the name of func if it
\* has one that is not the lambda name, and its representation otherwise.
ExpectedName(h, func) ==
    IF HasName(func) /\ Name(func) # "<lambda>" THEN Name(func) ELSE ReprIn(h, func)

\* What is expected before the name: nothing for a wrapper called directly,
\* the representation of the instance, or of the class if there is none,
\* and a dot for a member.
ExpectedPrefix(via) ==
    IF via = NoValue THEN ""
    ELSE IF via.instance # None THEN ReprIn(via.heap, via.instance) \o "."
    ELSE ReprIn(via.heap, Class(via.owner)) \o "."

\* The instance attributes at the time the wrapper of call i was made.
MadeHeap(i) == IF hist[i].via = NoValue THEN hist[i].heap0 ELSE hist[i].via.heap

\* C4: a call of a class member read through an instance is logged under
\* <repr of the instance>.<name> and without the instance among the logged
\* arguments (the function gets it as first argument all the same); read
\* through the class it is logged under <repr of the class>.<name>, with
\* all the arguments that were passed, instance included.
C4_MemberPrefix ==
    \A i \in Calls :
       (hist[i].via # NoValue /\ hist[i].callAt # 0) =>
          LET r == hist[i]
              base == ExpectedName(r.via.heap, r.self._func)
              owner == ReprIn(r.via.heap, Class(r.via.owner))
              inst == ReprIn(r.via.heap, r.via.instance)
              passed == ExpectedArgs(r.heap0, r.args, r.kwargs)
          IN  IF r.via.instance # None
              THEN /\ log[r.callAt] = "[call] " \o inst \o "." \o base
                                         \o "(" \o passed \o ")\n"
                   /\ log[r.callAt] # "[call] " \o inst \o "." \o base \o "("
                         \o ExpectedArgs(r.heap0, <<r.via.instance>> \o r.args, r.kwargs)
                         \o ")\n"
                   /\ r.self._func.k = "method" =>
                         FullArgs(r.self._func, r.args)[1] \in {r.via.instance,
                                                               Class(r.via.owner)}
              ELSE log[r.callAt] = "[call] " \o owner \o "." \o base
                                      \o "(" \o passed \o ")\n"

\* The member m has been called through an instance.
C4_Witness ==
    \E i \in Calls : /\ hist[i].via # NoValue
                     /\ hist[i].via.key = "m"
                     /\ hist[i].via.instance # None
                     /\ hist[i].status = "returned"

\* C8: the name in the lines of a call is the name of the wrapped callable
\* if it has a name and the name is not '<lambda>', and the representation
\* of the wrapped callable otherwise (after the prefix, for a member).
C8_DisplayName ==
    \A i \in Calls :
       LET r == hist[i]
           shown == ExpectedPrefix(r.via) \o ExpectedName(MadeHeap(i), r.self._func)
                       \o "(" \o ExpectedArgs(r.heap0, r.args, r.kwargs) \o ")"
       IN  /\ r.self._repr = ExpectedPrefix(r.via) \o ExpectedName(MadeHeap(i), r.self._func)
           /\ r.callAt # 0 => log[r.callAt] = "[call] " \o shown \o "\n"
           /\ r.exitAt # 0 => log[r.exitAt] = "[exit] " \o shown \o " = "
                                                  \o ReprIn(r.heap1, r.fret) \o "\n"

\* The lambda and the callable object, which has no name, have been called.
C8_Witness ==
    \E i, j \in Calls :
       /\ hist[i].self._func = Function("<lambda>") /\ hist[i].exitAt # 0
       /\ hist[j].self._func = add21 /\ hist[j].exitAt # 0

\* The calls that have a [call] line before the [exit] line of call i and
\* no [exit] line of their own before it.
OpenAt(i) ==
    {j \in Calls : /\ hist[j].callAt # 0
                   /\ hist[j].callAt < hist[i].exitAt
                   /\ hist[j].exitAt = 0 \/ hist[j].exitAt >= hist[i].exitAt}

\* The call of S with the latest [call] line.
Latest(S) == CHOOSE j \in S : \A m \in S : hist[m].callAt <= hist[j].callAt

\* The text between the tag and the end of the [call] line of call j.
CallText(j) ==
    hist[j].self._repr \o "(" \o ExpectedArgs(hist[j].heap0, hist[j].args, hist[j].kwargs)
       \o ")"

\* C9 as stated: every [exit] line is the one of the most recent call that
\* has a [call] line and no [exit] line yet.
C9_WellBracketed ==
    \A i \in Calls :
       hist[i].exitAt # 0 =>
          log[hist[i].exitAt] = "[exit] " \o CallText(Latest(OpenAt(i))) \o " = "
                                      \o ReprIn(hist[i].heap1, hist[i].fret) \o "\n"

\* C9, amended: every [exit] line is the one of the most recent call that has
\* a [call] line, no [exit] line yet and was not ended by an exception; and
\* the lines of two calls that returned are nested or disjoint.
C9_WellBracketedReturns ==
    /\ \A i \in Calls :
          hist[i].exitAt # 0 =>
             LET open == {j \in OpenAt(i) : hist[j].status # "raised"}
             IN  /\ Latest(open) = i
                 /\ log[hist[i].callAt] = "[call] " \o CallText(Latest(open)) \o "\n"
                 /\ log[hist[i].exitAt] = "[exit] " \o CallText(Latest(open)) \o " = "
                                             \o ReprIn(hist[i].heap1, hist[i].fret) \o "\n"
    /\ \A i, j \in Calls :
          (hist[i].exitAt # 0 /\ hist[j].exitAt # 0 /\ hist[i].callAt < hist[j].callAt) =>
             \/ hist[i].exitAt < hist[j].callAt
             \/ hist[j].exitAt < hist[i].exitAt

\* A call made by the wrapped callable of another call has returned, and
\* then the outer call.
C9_Witness ==
    \E i, j \in Calls :
       /\ hist[i].callAt < hist[j].callAt
       /\ hist[j].callAt < hist[j].exitAt
       /\ hist[j].exitAt < hist[i].exitAt

\* The condition of the docstring on an attribute: it is not __repr__, and it
\* has a __get__ method which returns a callable for the class, or has none
\* and is callable itself.
DocCondition(key, obj) ==
    /\ key # "__repr__"
    /\ IF HasGet(obj) THEN Callable(DescrGet(obj, None, Class("autolog")))
       ELSE Callable(obj)

\* The object that __new__ tests: what __get__ returns if there is one.
Tested(obj) == IF HasGet(obj) THEN DescrGet(obj, None, Class("autolog")) ELSE obj

\* The entry is the wrapper logged makes of obj.
IsLogged(entry, obj) ==
    /\ entry.k = "logged"
    /\ entry._func = obj

C6_ReprUndecorated ==
    /\ \A c \in DOMAIN made :
          "__repr__" \in DOMAIN made[c] =>
             /\ classes[c].dict["__repr__"] = made[c]["__repr__"]
             /\ classes[c].dict["__repr__"].k # "logged"
    /\ \A i \in Calls :
          /\ hist[i].via # NoValue => hist[i].via.key # "__repr__"
          /\ ~(HasName(hist[i].self._func) /\ Name(hist[i].self._func) = "__repr__")

\* repr has been called on an instance of a class the metaclass created.
C6_Witness ==
    /\ Op(got) = "repr"
    /\ got.obj.class \in DOMAIN made
    /\ "__repr__" \in DOMAIN made[got.obj.class]

\* The accessors of properties.
Accessors == {"fget", "fset", "fdel"}

\* The calls of call records that are calls of an accessor wrapper.
AccessorCalls(name) ==
    {i \in Calls : /\ hist[i].via = NoValue
                   /\ hist[i].self._func = Function(name)}

\* C7: a property of the namespace is replaced by a property whose accessors
\* are the wrappers of the accessors that were set, the others staying unset;
\* a call of an accessor is logged with the plain name of the accessor and the
\* instance as first argument; the getter returns the instance's value and
\* the setter stores the value assigned, as the original accessors do.
C7_PropertyRebuilt ==
    /\ \A c \in DOMAIN made : \A key \in DOMAIN made[c] :
          made[c][key].k = "property" =>
             /\ classes[c].dict[key].k = "property"
             /\ \A a \in Accessors :
                   IF made[c][key][a] # None
                   THEN /\ IsLogged(classes[c].dict[key][a], made[c][key][a])
                        /\ classes[c].dict[key][a]._repr = made[c][key][a].id
                   ELSE classes[c].dict[key][a] = None
    /\ \A name \in {"__getThought", "__setThought", "__delThought"} :
          \A i \in AccessorCalls(name) :
             LET r == hist[i]
             IN  /\ Len(r.args) > 0 /\ r.args[1] \in Instances
                 /\ r.callAt # 0 =>
                       log[r.callAt] = "[call] " \o name \o "("
                          \o ExpectedArgs(r.heap0, r.args, r.kwargs) \o ")\n"
                 /\ r.status = "returned" =>
                       /\ log[r.exitAt] = "[exit] " \o name \o "("
                             \o ExpectedArgs(r.heap0, r.args, r.kwargs) \o ") = "
                             \o ReprIn(r.heap1, r.wret) \o "\n"
                       /\ name = "__getThought" =>
                             r.wret = r.heap1[r.args[1].id].thought
                       /\ name = "__setThought" =>
                             /\ r.heap1[r.args[1].id].thought = r.args[2]
                             /\ r.wret = None

\* A value has been assigned to the property of an instance and the call of
\* the setter has returned.
C7_Witness ==
    \E i \in AccessorCalls("__setThought") : hist[i].status = "returned"

\* C10: the class autolog returns for the existing class Foo has the name and
\* the bases of Foo and a logged __init__ (constructing an instance logs the
\* call of __init__), and the namespace of Foo is the one it had.
C10_ConvertCopy ==
    "autolog(Foo)" \in DOMAIN classes =>
       LET new == classes["autolog(Foo)"]
           old == classes["Foo"]
       IN  /\ new.name = "Foo" /\ new.name = old.name
           /\ new.bases = old.bases
           /\ DOMAIN new.dict = DOMAIN old.dict
           /\ IsLogged(new.dict["__init__"], old.dict["__init__"])
           /\ new.dict["x"] = old.dict["x"]
           /\ old.dict = made["autolog(Foo)"]
           /\ old.dict["__init__"] = FooInit
           /\ old.meta = "type"
           /\ \A i \in Calls :
                 (/\ hist[i].via # NoValue
                  /\ hist[i].via.owner = "autolog(Foo)"
                  /\ hist[i].via.key = "__init__"
                  /\ hist[i].status # "TypeError") =>
                    /\ hist[i].callAt # 0
                    /\ log[hist[i].callAt] =
                          "[call] " \o ReprIn(hist[i].via.heap, hist[i].via.instance)
                             \o ".__init__("
                             \o ExpectedArgs(hist[i].heap0, hist[i].args, hist[i].kwargs)
                             \o ")\n"

\* An instance of the class autolog returned has been constructed.
C10_Witness ==
    \E i \in Calls : /\ hist[i].via # NoValue
                     /\ hist[i].via.owner = "autolog(Foo)"
                     /\ hist[i].via.key = "__init__"
                     /\ hist[i].status = "returned"

\* The calls of the wrapper of the generator function.
GenCalls == {i \in Calls : hist[i].self._func = Function("squares")}

\* C11: a call of the wrapper of the generator function that has returned has
\* two lines in the log, its [call] line and an [exit] line that shows the
\* generator object, which is what the caller gets, a generator that has not
\* started; every line of the log is the [call] or [exit] line of a wrapper
\* call and no wrapper call is a step of a generator, so that the steps, which
\* yield the squares in order, have written nothing.
C11_GeneratorInstantiation ==
    /\ \A i \in GenCalls :
          hist[i].status = "returned" =>
             LET r == hist[i]
                 text == "squares(" \o ExpectedArgs(r.heap0, r.args, r.kwargs) \o ")"
             IN  /\ r.wret = r.fret
                 /\ r.wret.k = "generator"
                 /\ r.wret.gen \in 1..Len(gens)
                 /\ gens[r.wret.gen].n = IntOf(r.args[1])
                 /\ Cardinality(LinesOf(i)) = 2
                 /\ log[r.callAt] = "[call] " \o text \o "\n"
                 /\ log[r.exitAt] = "[exit] " \o text
                       \o " = <generator object squares at 0xsquares>\n"
                 /\ \A j \in GenCalls \ {i} :
                       hist[j].status = "returned" => hist[j].wret # r.wret
    /\ \A p \in 1..Len(log) : Cardinality({i \in Calls : p \in LinesOf(i)}) = 1
    /\ \A i \in Calls : hist[i].self._func.k # "generator"
    /\ \A g \in 1..Len(gens) :
          /\ gens[g].i <= gens[g].n
          /\ gens[g].i > 0 => g \in Returned_gens
    /\ (Op(got) = "next" /\ got.raised = "") =>
          \E i \in 1..9 : /\ i <= gens[got.gen].i
                          /\ got.value = PyInt(IntStr((i - 1) * (i - 1)))

\* A generator has been iterated to its end, and the log holds the two lines
\* of the call that made it.
C11_Witness ==
    \E i \in GenCalls :
       /\ hist[i].status = "returned"
       /\ hist[i].wret.k = "generator"
       /\ gens[hist[i].wret.gen].done
       /\ gens[hist[i].wret.gen].i = 2
       /\ Len(log) = 2

\* The file object _logged.log held when line p of the log was written: the
\* last one assigned before that.
HeldAt(p) ==
    CHOOSE s \in 1..Len(sinks) :
       /\ sinks[s] < p
       /\ \A t \in 1..Len(sinks) : sinks[t] < p => t <= s

\* C12: every line is written to the file object that _logged.log holds when
\* the line is written, whenever the wrapper was made: a file object gets no
\* line once another has replaced it, and the lines of the calls made after
\* the replacement, all through wrappers made before it, are in the new one.
C12_SinkAtCallTime ==
    /\ Len(dest) = Len(log)
    /\ \A p \in 1..Len(log) : dest[p] = HeldAt(p)
    /\ \A s \in 1..(Len(sinks) - 1) : \A p \in 1..Len(log) :
          dest[p] = s => p <= sinks[s + 1]
    /\ \A i \in Calls : \A s \in 1..Len(sinks) :
          /\ hist[i].callAt > sinks[s] => dest[hist[i].callAt] >= s
          /\ hist[i].exitAt > sinks[s] => dest[hist[i].exitAt] >= s

\* A wrapper has been called before and after _logged.log was replaced: the
\* lines of the first call are in the old file object, those of the second in
\* the new one.
C12_Witness ==
    /\ Len(sinks) = 2
    /\ \E i, j \in Calls :
          /\ hist[i].self = hist[j].self
          /\ hist[i].self \in plain
          /\ hist[i].status = "returned"
          /\ hist[j].status = "returned"
          /\ dest[hist[i].callAt] = 1 /\ dest[hist[i].exitAt] = 1
          /\ dest[hist[j].callAt] = 2 /\ dest[hist[j].exitAt] = 2

\* The calls of wrapper w that have a [call] line, and those that have an
\* [exit] line.
CallsLogged(w) == {i \in Calls : hist[i].self = w /\ hist[i].callAt # 0}
ExitsLogged(w) == {i \in Calls : hist[i].self = w /\ hist[i].exitAt # 0}

\* C13: a call whose wrapped callable raised has its [call] line and no
\* [exit] line, the exception that left the wrapper is the one the callable
\* raised and the wrapper returned nothing; every line of the log is the
\* [call] or the [exit] line of one call, and no wrapper has more calls with
\* an [exit] line than with a [call] line.
C13_NoExitOnException ==
    /\ \A i \in Calls :
          hist[i].status = "raised" =>
             /\ hist[i].callAt # 0
             /\ log[hist[i].callAt] = "[call] " \o CallText(i) \o "\n"
             /\ hist[i].exitAt = 0
             /\ LinesOf(i) = {hist[i].callAt}
             /\ hist[i].fexc # NoValue
             /\ hist[i].wexc = hist[i].fexc
             /\ hist[i].wret = NoValue
    /\ \A p \in 1..Len(log) :
          /\ Cardinality({i \in Calls : p \in LinesOf(i)}) = 1
          /\ \A i \in Calls :
                p = hist[i].exitAt =>
                   /\ hist[i].status = "returned"
                   /\ log[p] = "[exit] " \o CallText(i) \o " = "
                                  \o ReprIn(hist[i].heap1, hist[i].fret) \o "\n"
    /\ \A i \in Calls :
          /\ ExitsLogged(hist[i].self) \subseteq CallsLogged(hist[i].self)
          /\ Cardinality(ExitsLogged(hist[i].self))
                <= Cardinality(CallsLogged(hist[i].self))

\* A call made by a wrapped callable has raised; the caller has handled the
\* exception and its own call has returned.
C13_Witness ==
    \E i, j \in Calls :
       /\ hist[i].status = "raised"
       /\ hist[j].status = "returned"
       /\ hist[j].callAt < hist[i].callAt
       /\ hist[i].callAt < hist[j].exitAt

\* The name and argument text of call i as they read with the instance
\* attributes h at binding time and h0 at call time.
TextWith(i, h, h0) ==
    (IF hist[i].via = NoValue THEN ""
     ELSE IF hist[i].via.instance # None THEN ReprIn(h, hist[i].via.instance) \o "."
     ELSE ReprIn(h, Class(hist[i].via.owner)) \o ".")
    \o ExpectedName(h, hist[i].self._func)
    \o "(" \o ExpectedArgs(h0, hist[i].args, hist[i].kwargs) \o ")"

\* C14: the [call] and the [exit] line of a call show one text for the name
\* and the arguments: the name as it read when the member was bound and the
\* arguments as they read when the call started, whatever the call has made
\* of the representation of the instance or of an argument since; the two
\* lines of a call of __init__ on an instance that had no name yet show the
\* representation object.__repr__ gives.
C14_TextComputedOnce ==
    \A i \in Calls :
       hist[i].status = "returned" =>
          LET r == hist[i]
              text == TextWith(i, MadeHeap(i), r.heap0)
          IN  /\ log[r.callAt] = "[call] " \o text \o "\n"
              /\ log[r.exitAt] = "[exit] " \o text \o " = "
                                    \o ReprIn(r.heap1, r.fret) \o "\n"
              /\ TextWith(i, r.heap1, r.heap1) # text =>
                    log[r.exitAt] # "[exit] " \o TextWith(i, r.heap1, r.heap1) \o " = "
                                       \o ReprIn(r.heap1, r.fret) \o "\n"
              /\ (/\ r.via # NoValue
                  /\ r.via.key = "__init__"
                  /\ r.via.instance # None
                  /\ r.via.heap[r.via.instance.id].name = NoValue) =>
                    /\ log[r.callAt] = "[call] <__main__." \o ClassName(r.via.owner)
                          \o " object at 0x" \o r.via.instance.id \o ">.__init__("
                          \o ExpectedArgs(r.heap0, r.args, r.kwargs) \o ")\n"
                    /\ log[r.exitAt] = "[exit] <__main__." \o ClassName(r.via.owner)
                          \o " object at 0x" \o r.via.instance.id \o ">.__init__("
                          \o ExpectedArgs(r.heap0, r.args, r.kwargs) \o ") = None\n"

\* An __init__ that gave its instance a name has returned, inside a call that
\* has the instance among its arguments and has returned as well.
C14_Witness ==
    \E i, j \in Calls :
       /\ hist[i].status = "returned"
       /\ hist[j].status = "returned"
       /\ hist[j].via # NoValue
       /\ hist[j].via.key = "__init__"
       /\ ReprIn(hist[j].heap1, hist[j].via.instance)
             # ReprIn(hist[j].via.heap, hist[j].via.instance)
       /\ hist[i].callAt < hist[j].callAt
       /\ hist[j].exitAt < hist[i].exitAt
       /\ ExpectedArgs(hist[i].heap1, hist[i].args, hist[i].kwargs)
             # ExpectedArgs(hist[i].heap0, hist[i].args, hist[i].kwargs)

====
